---------------------------- MODULE Spec2Model ----------------------------
(***************************************************************************)
(* wg-conf-gen: WireGuard configuration generator for Mullvad VPN.         *)
(*                                                                         *)
(* The model follows src/wg-conf-gen.py.  The configuration file is a      *)
(* text: a sequence of characters.  A "character" of the model is a token: *)
(* the characters the configuration reader treats specially (newline,      *)
(* space, tab, "=", ":", "[", "]", "%", "#") are tokens of their own, and  *)
(* a run of ordinary characters such as "nl-ams-wg-001" is one token.      *)
(* Option names and values are texts as well, so that writing a            *)
(* configuration and reading it back are two different computations.       *)
(***************************************************************************)
EXTENDS Integers, Sequences, FiniteSets, TLC

(***************************************************************************)
(* Text helpers (Python str methods used by configparser).                 *)
(***************************************************************************)
IsSpace(t) == t \in {" ", "\t", "\n"}

RECURSIVE LStrip(_)
LStrip(s) == IF s # <<>> /\ IsSpace(Head(s)) THEN LStrip(Tail(s)) ELSE s

RECURSIVE RStrip(_)
RStrip(s) ==
    IF s # <<>> /\ IsSpace(s[Len(s)]) THEN RStrip(SubSeq(s, 1, Len(s) - 1)) ELSE s

Strip(s) == LStrip(RStrip(s))

\* Index of the first element of s that lies in S, 0 when there is none.
FirstIn(s, S) ==
    LET I == {i \in 1..Len(s) : s[i] \in S}
    IN  IF I = {} THEN 0 ELSE CHOOSE i \in I : \A j \in I : i <= j

\* Index of the last element of s that lies in S, 0 when there is none.
LastIn(s, S) ==
    LET I == {i \in 1..Len(s) : s[i] \in S}
    IN  IF I = {} THEN 0 ELSE CHOOSE i \in I : \A j \in I : i >= j

\* Iterating a file: lines, each keeping its newline.
RECURSIVE SplitLines(_)
SplitLines(t) ==
    IF t = <<>> THEN <<>>
    ELSE LET n == FirstIn(t, {"\n"})
         IN  IF n = 0 THEN <<t>>
             ELSE <<SubSeq(t, 1, n)>> \o SplitLines(SubSeq(t, n + 1, Len(t)))

\* '\n'.join(lines)
RECURSIVE JoinLines(_)
JoinLines(ls) ==
    IF ls = <<>> THEN <<>>
    ELSE IF Len(ls) = 1 THEN ls[1]
    ELSE ls[1] \o <<"\n">> \o JoinLines(Tail(ls))

\* value.replace('\n', '\n\t')
RECURSIVE IndentNewlines(_)
IndentNewlines(s) ==
    IF s = <<>> THEN <<>>
    ELSE IF Head(s) = "\n" THEN <<"\n", "\t">> \o IndentNewlines(Tail(s))
    ELSE <<Head(s)>> \o IndentNewlines(Tail(s))

(***************************************************************************)
(* configparser.ConfigParser(comment_prefixes=None), optionxform = str.    *)
(* A configuration is a sequence of sections, each a name and a sequence   *)
(* of (key, val) options in insertion order.                               *)
(***************************************************************************)
EmptyConfig == <<>>

\* comment_prefixes=None: no line is a comment.
CommentPrefixes == {}

IsCommentLine(line) ==
    LET v == Strip(line) IN v # <<>> /\ v[1] \in CommentPrefixes

SectionIndex(cfg, name) ==
    LET I == {i \in 1..Len(cfg) : cfg[i].name = name}
    IN  IF I = {} THEN 0 ELSE CHOOSE i \in I : TRUE

OptionIndex(opts, key) ==
    LET I == {i \in 1..Len(opts) : opts[i].key = key}
    IN  IF I = {} THEN 0 ELSE CHOOSE i \in I : \A j \in I : i <= j

\* One line of ConfigParser._read.  st: secs (options hold the list of their
\* value's lines), cur (index of the current section, 0 before the first
\* header), hasopt (optname is set), indent, perr (a ParsingError is pending),
\* fatal (an exception raised at once).
ReadLine(st, line) ==
    LET value     == Strip(line)
        curIndent == Len(line) - Len(LStrip(line))
        lastOpt   == Len(st.secs[st.cur].opts)
        close     == LastIn(value, {"]"})
        isHeader  == value[1] = "[" /\ close >= 3
        header    == SubSeq(value, 2, close - 1)
        delim     == FirstIn(value, {"=", ":"})
        optname   == RStrip(SubSeq(value, 1, delim - 1))
        optval    == Strip(SubSeq(value, delim + 1, Len(value)))
    IN  IF st.fatal # "" THEN st
        ELSE IF IsCommentLine(line) THEN st
        ELSE IF value = <<>> THEN
            \* empty_lines_in_values: an empty line joins the current value
            IF st.cur # 0 /\ st.hasopt
            THEN [st EXCEPT !.secs[st.cur].opts[lastOpt].lines = @ \o << <<>> >>]
            ELSE st
        ELSE IF st.cur # 0 /\ st.hasopt /\ curIndent > st.indent THEN
            \* continuation line
            [st EXCEPT !.secs[st.cur].opts[lastOpt].lines = @ \o <<value>>]
        ELSE IF isHeader THEN
            IF SectionIndex(st.secs, header) # 0
            THEN [st EXCEPT !.fatal = "DuplicateSectionError"]
            ELSE [st EXCEPT !.secs = @ \o <<[name |-> header, opts |-> <<>>]>>,
                            !.cur = Len(st.secs) + 1,
                            !.hasopt = FALSE,
                            !.indent = curIndent]
        ELSE IF st.cur = 0 THEN [st EXCEPT !.fatal = "MissingSectionHeaderError"]
        ELSE IF delim = 0 THEN [st EXCEPT !.perr = TRUE, !.indent = curIndent]
        ELSE IF OptionIndex(st.secs[st.cur].opts, optname) # 0
            THEN [st EXCEPT !.fatal = "DuplicateOptionError"]
        ELSE [st EXCEPT !.secs[st.cur].opts = @ \o <<[key |-> optname, lines |-> <<optval>>]>>,
                        !.hasopt = (optname # <<>>),
                        !.perr = (st.perr \/ optname = <<>>),
                        !.indent = curIndent]

RECURSIVE ReadLines(_, _)
ReadLines(st, lines) ==
    IF lines = <<>> THEN st ELSE ReadLines(ReadLine(st, Head(lines)), Tail(lines))

\* ConfigParser._join_multiline_values
JoinMultiline(secs) ==
    [i \in 1..Len(secs) |->
        [name |-> secs[i].name,
         opts |-> [j \in 1..Len(secs[i].opts) |->
                     [key |-> secs[i].opts[j].key,
                      val |-> RStrip(JoinLines(secs[i].opts[j].lines))]]]]

\* ConfigParser.read_file on a text: [err, cfg].
ReadText(text) ==
    LET st == ReadLines([secs |-> <<>>, cur |-> 0, hasopt |-> FALSE, indent |-> 0,
                         perr |-> FALSE, fatal |-> ""], SplitLines(text))
    IN  IF st.fatal # "" THEN [err |-> st.fatal, cfg |-> EmptyConfig]
        ELSE IF st.perr THEN [err |-> "ParsingError", cfg |-> EmptyConfig]
        ELSE [err |-> "", cfg |-> JoinMultiline(st.secs)]

\* Faulty variant: the file is opened before it is read (read_file(open(filename))),
\* so a missing file raises instead of being skipped.
ConfigRead_Open(f) ==
    IF f.exists THEN ReadText(f.text) ELSE [err |-> "FileNotFoundError", cfg |-> EmptyConfig]

\* ConfigParser.read(filename): a file that cannot be opened is skipped.
ConfigRead(f) ==
    IF f.exists THEN ReadText(f.text) ELSE [err |-> "", cfg |-> EmptyConfig]

\* BasicInterpolation.before_get: "%%" is "%", any other "%" is an error
\* (a "%(name)s" reference needs "(", which no text of the model holds).
RECURSIVE Interpolate(_)
Interpolate(s) ==
    IF s = <<>> THEN [err |-> "", val |-> <<>>]
    ELSE IF Head(s) # "%" THEN
        LET r == Interpolate(Tail(s))
        IN  IF r.err # "" THEN r ELSE [err |-> "", val |-> <<Head(s)>> \o r.val]
    ELSE IF Len(s) >= 2 /\ s[2] = "%" THEN
        LET r == Interpolate(SubSeq(s, 3, Len(s)))
        IN  IF r.err # "" THEN r ELSE [err |-> "", val |-> <<"%">> \o r.val]
    ELSE [err |-> "InterpolationSyntaxError", val |-> <<>>]

\* The raw value of an option: [err, val].
RawGet(cfg, section, key) ==
    LET s == SectionIndex(cfg, section)
        o == OptionIndex(cfg[s].opts, key)
    IN  IF s = 0 THEN [err |-> "NoSectionError", val |-> <<>>]
        ELSE IF o = 0 THEN [err |-> "NoOptionError", val |-> <<>>]
        ELSE [err |-> "", val |-> cfg[s].opts[o].val]

\* config.get(section, key)
ConfigGet(cfg, section, key) ==
    LET r == RawGet(cfg, section, key)
    IN  IF r.err # "" THEN r ELSE Interpolate(r.val)

\* BasicInterpolation.before_set: a "%" that is not part of "%%" is refused.
ValidForSet(val) == Interpolate(val).err = ""

\* config.set(section, key, val) on an existing section: [err, cfg].
ConfigSet(cfg, section, key, val) ==
    LET s == SectionIndex(cfg, section)
        o == OptionIndex(cfg[s].opts, key)
    IN  IF s = 0 THEN [err |-> "NoSectionError", cfg |-> cfg]
        ELSE IF ~ValidForSet(val) THEN [err |-> "ValueError", cfg |-> cfg]
        ELSE IF o = 0
        THEN [err |-> "", cfg |-> [cfg EXCEPT ![s].opts = @ \o <<[key |-> key, val |-> val]>>]]
        ELSE [err |-> "", cfg |-> [cfg EXCEPT ![s].opts[o].val = val]]

\* config[section] = {key: val, ...} on a new parser: read_dict sets each option.
RECURSIVE SetAll(_, _, _)
SetAll(cfg, section, opts) ==
    IF opts = <<>> THEN [err |-> "", cfg |-> cfg]
    ELSE LET r == ConfigSet(cfg, section, opts[1].key, opts[1].val)
         IN  IF r.err # "" THEN r ELSE SetAll(r.cfg, section, Tail(opts))

ConfigAssign(cfg, section, opts) ==
    SetAll(cfg \o <<[name |-> section, opts |-> <<>>]>>, section, opts)

\* ConfigParser.write: "[name]", "key = value" per option, an empty line.
RECURSIVE WriteOptions(_)
WriteOptions(opts) ==
    IF opts = <<>> THEN <<>>
    ELSE opts[1].key \o <<" ", "=", " ">> \o IndentNewlines(opts[1].val) \o <<"\n">>
         \o WriteOptions(Tail(opts))

RECURSIVE ConfigWrite(_)
ConfigWrite(cfg) ==
    IF cfg = <<>> THEN <<>>
    ELSE <<"[">> \o cfg[1].name \o <<"]", "\n">> \o WriteOptions(cfg[1].opts) \o <<"\n">>
         \o ConfigWrite(Tail(cfg))

(***************************************************************************)
(* The relay directory and the HTTP session (lines 25-54).                 *)
(***************************************************************************)
RetryTotal == 3

StatusForcelist == {429, 500, 502, 503, 504}

Relay(h, k, ip) == [hostname |-> <<h>>, public_key |-> <<k, "=">>, ipv4_addr_in |-> <<ip>>]

NoRelay == [hostname |-> <<>>, public_key |-> <<>>, ipv4_addr_in |-> <<>>]

\* What ask_mullvad returns: None, or a list of relays.
None == [isNone |-> TRUE, items |-> <<>>]

RelayList(rs) == [isNone |-> FALSE, items |-> rs]

\* Faulty variant: the loop does not return at the first matching city, the last one wins.
RECURSIVE FindCity_Last(_, _)
FindCity_Last(cities, requested_city) ==
    IF cities = <<>> THEN None
    ELSE LET r == FindCity_Last(Tail(cities), requested_city)
         IN  IF ~r.isNone THEN r
             ELSE IF Head(cities).name = requested_city
             THEN RelayList(Head(cities).relays)
             ELSE None

\* Faulty variant: a matching city is returned only if its relay list is not empty.
RECURSIVE FindCity_Truthy(_, _)
FindCity_Truthy(cities, requested_city) ==
    IF cities = <<>> THEN None
    ELSE IF Head(cities).name = requested_city /\ Head(cities).relays # <<>>
    THEN RelayList(Head(cities).relays)
    ELSE FindCity_Truthy(Tail(cities), requested_city)

\* for city in country["cities"]: if city["name"] == requested_city: return
RECURSIVE FindCity(_, _)
FindCity(cities, requested_city) ==
    IF cities = <<>> THEN None
    ELSE IF Head(cities).name = requested_city THEN RelayList(Head(cities).relays)
    ELSE FindCity(Tail(cities), requested_city)

\* for country in mullvad_gateways["countries"]: ... return None
RECURSIVE FindRelays(_, _, _)
FindRelays(countries, requested_country, requested_city) ==
    IF countries = <<>> THEN None
    ELSE LET r == IF Head(countries).name = requested_country
                  THEN FindCity(Head(countries).cities, requested_city)
                  ELSE None
         IN  IF ~r.isNone THEN r
             ELSE FindRelays(Tail(countries), requested_country, requested_city)

\* One answer of the server to one attempt of the GET.
ConnectionFailure == [kind |-> "connerr", status |-> 0, body |-> [json |-> FALSE, countries |-> <<>>]]

Response(status, body) == [kind |-> "response", status |-> status, body |-> body]

DirectoryBody(countries) == [json |-> TRUE, countries |-> countries]

ErrorPage == [json |-> FALSE, countries |-> <<>>]

IsTransient(answer) ==
    answer.kind = "connerr" \/ answer.status \in StatusForcelist

\* session.get through the mounted adapter: a connection error or a status
\* of the forcelist is retried while retries are left, then raised as a
\* RequestException; any other response is returned, whatever its status.
RECURSIVE Attempt(_, _)
Attempt(script, retriesLeft) ==
    IF IsTransient(Head(script))
    THEN IF retriesLeft = 0
         THEN [raised |-> TRUE, response |-> Head(script)]
         ELSE Attempt(Tail(script), retriesLeft - 1)
    ELSE [raised |-> FALSE, response |-> Head(script)]

SessionGet(script) == Attempt(script, RetryTotal)

\* ask_mullvad: [err, code, status, relays].
AskMullvad(script, requested_country, requested_city) ==
    LET got == SessionGet(script)
    IN  IF got.raised
        THEN [err |-> "RequestException", code |-> 2, status |-> got.response.status,
              relays |-> None]
        ELSE IF ~got.response.body.json
        THEN [err |-> "JSONDecodeError", code |-> 1, status |-> got.response.status,
              relays |-> None]
        ELSE [err |-> "", code |-> 0, status |-> got.response.status,
              relays |-> FindRelays(got.response.body.countries,
                                    requested_country, requested_city)]

(***************************************************************************)
(* get_random_gateway (lines 57-61).                                       *)
(***************************************************************************)
\* Faulty variant: the stop value is included, as random.randint includes it.
Randrange_Inclusive(start, stop, step) ==
    {n \in start..stop : (n - start) % step = 0}

\* random.randrange(start, stop, step): the values it may return; none when
\* the range is empty (it raises ValueError).
Randrange(start, stop, step) ==
    {n \in start..(stop - 1) : (n - start) % step = 0}

\* Faulty variant: with nothing to choose from, a relay with empty fields is returned.
GetRandomGateway_Placeholder(available_relays) ==
    IF available_relays.isNone \/ available_relays.items = <<>>
    THEN {[err |-> "", gateway |-> NoRelay]}
    ELSE {[err |-> "", gateway |-> available_relays.items[n]]
          : n \in 1..Len(available_relays.items)}

\* The outcomes of get_random_gateway: [err, gateway].
GetRandomGateway(available_relays) ==
    IF available_relays.isNone
    THEN {[err |-> "TypeError", gateway |-> NoRelay]}
    ELSE LET max_len == Len(available_relays.items)
             numbers == Randrange(0, max_len, 1)
         IN  IF numbers = {}
             THEN {[err |-> "ValueError", gateway |-> NoRelay]}
             ELSE {IF n + 1 \in 1..max_len
                   THEN [err |-> "", gateway |-> available_relays.items[n + 1]]
                   ELSE [err |-> "IndexError", gateway |-> NoRelay]
                   : n \in numbers}

(***************************************************************************)
(* create and recreate (lines 84-160).                                     *)
(***************************************************************************)
Interface == <<"Interface">>
Peer == <<"Peer">>
Opt(k, v) == [key |-> k, val |-> v]
Note(w) == <<"#", " ", w>>

Endpoint(ipv4_addr) == ipv4_addr \o <<":", "51820">>

\* The two dictionaries of create, assigned to a new parser: [err, cfg].
CreateConfig(device, private_key, address, country, city, gateway) ==
    LET i == ConfigAssign(EmptyConfig, Interface,
                << Opt(Note("Device"), device),
                   Opt(<<"PrivateKey">>, private_key),
                   Opt(<<"Address">>, address),
                   Opt(<<"DNS">>, <<"10.64.0.1">>),
                   Opt(<<"Table">>, <<"42">>),
                   Opt(<<"PostUp">>, <<"ip -4 route add 10.64.0.1 dev exit & ip -4 route add 193.138.218.74 dev exit">>) >>)
    IN  IF i.err # "" THEN i
        ELSE ConfigAssign(i.cfg, Peer,
                << Opt(Note("Country"), country),
                   Opt(Note("City"), city),
                   Opt(Note("Hostname"), gateway.hostname),
                   Opt(<<"PublicKey">>, gateway.public_key),
                   Opt(<<"AllowedIPs">>, <<"0.0.0.0/0,", ":", ":", "0/0">>),
                   Opt(<<"Endpoint">>, Endpoint(gateway.ipv4_addr_in)) >>)

\* Faulty variant: None ends the run with a plain return.
CreateCheckRelays_Return(available_relays) ==
    IF available_relays.isNone
    THEN [err |-> "SystemExit", code |-> 0]
    ELSE [err |-> "", code |-> 0]

\* create after ask_mullvad: None ends the run with sys.exit(1).
CreateCheckRelays(available_relays) ==
    IF available_relays.isNone
    THEN [err |-> "SystemExit", code |-> 1]
    ELSE [err |-> "", code |-> 0]

\* recreate, lines 138-145: read the file and get the three notes.
RecreateLoad(f) ==
    LET r        == ConfigRead(f)
        country  == ConfigGet(r.cfg, Peer, Note("Country"))
        city     == ConfigGet(r.cfg, Peer, Note("City"))
        hostname == ConfigGet(r.cfg, Peer, Note("Hostname"))
        fail(e)  == [err |-> e, cfg |-> EmptyConfig, country |-> <<>>, city |-> <<>>]
    IN  IF r.err # "" THEN fail(r.err)
        ELSE IF country.err # "" THEN fail(country.err)
        ELSE IF city.err # "" THEN fail(city.err)
        ELSE IF hostname.err # "" THEN fail(hostname.err)
        ELSE [err |-> "", cfg |-> r.cfg, country |-> country.val, city |-> city.val]

\* Faulty variant: the hostname is set under "Hostname", without the "# " of the note.
RecreateUpdate_Typo(cfg, gateway) ==
    LET a == ConfigSet(cfg, Peer, <<"Hostname">>, gateway.hostname)
        b == ConfigSet(a.cfg, Peer, <<"PublicKey">>, gateway.public_key)
        c == ConfigSet(b.cfg, Peer, <<"Endpoint">>, Endpoint(gateway.ipv4_addr_in))
    IN  IF a.err # "" THEN a ELSE IF b.err # "" THEN b ELSE c

\* recreate, lines 152-157: the three config.set calls: [err, cfg].
RecreateUpdate(cfg, gateway) ==
    LET a == ConfigSet(cfg, Peer, Note("Hostname"), gateway.hostname)
        b == ConfigSet(a.cfg, Peer, <<"PublicKey">>, gateway.public_key)
        c == ConfigSet(b.cfg, Peer, <<"Endpoint">>, Endpoint(gateway.ipv4_addr_in))
    IN  IF a.err # "" THEN a ELSE IF b.err # "" THEN b ELSE c

\* Exit status of the interpreter when an exception reaches the top.
UncaughtExit == 1

(***************************************************************************)
(* Inputs.                                                                 *)
(***************************************************************************)
Netherlands == <<"Netherlands">>
Germany == <<"Germany">>
Amsterdam == <<"Amsterdam">>
Berlin == <<"Berlin">>
Rotterdam == <<"Rotterdam">>

R1 == Relay("nl-ams-wg-001", "pubkey1", "185.213.154.68")
R2 == Relay("nl-ams-wg-002", "pubkey2", "185.213.154.69")
R3 == Relay("nl-rtm-wg-001", "pubkey3", "185.213.154.70")

City(n, rs) == [name |-> n, relays |-> rs]
Country(n, cs) == [name |-> n, cities |-> cs]

\* Directory responses: a city with relays, a city with none, and a
\* response that lists the same country twice.
DirectorySamples ==
    { << Country(Netherlands, <<City(Amsterdam, <<R1, R2>>)>>),
         Country(Germany, <<City(Berlin, <<>>)>>) >>,
      << Country(Netherlands, <<City(Rotterdam, <<R3>>)>>),
         Country(Netherlands, <<City(Amsterdam, <<R2>>)>>) >> }

RECURSIVE Repeat(_, _)
Repeat(x, n) == IF n = 0 THEN <<>> ELSE <<x>> \o Repeat(x, n - 1)

\* What the server does to the attempts of one GET: some transient failures,
\* then a steady answer.
Scripts ==
    { Repeat(t, k) \o <<final>> :
        k \in 0..(RetryTotal + 1),
        t \in {ConnectionFailure, Response(503, ErrorPage)},
        final \in {Response(200, DirectoryBody(d)) : d \in DirectorySamples}
                  \cup {Response(404, ErrorPage)} }

PrivateKeys == {<<"privkey", "=">>}
Addresses == {<<"10.65.123.45/32">>}
Devices == {<<"Unknown">>, <<" ", "Laptop">>, <<"50", "%", "%">>, <<"50", "%">>}
Locations == {<<Netherlands, Amsterdam>>, <<Germany, Berlin>>, <<Netherlands, Berlin>>}

Absent == [exists |-> FALSE, text |-> <<>>]
Holds(t) == [exists |-> TRUE, text |-> t]

\* A configuration written by hand for wg-quick: "%i" in PostUp, a Peer
\* option the tool does not know, no spaces around "=".
HandWritten ==
    << "[", "Interface", "]", "\n",
       "PrivateKey", "=", "privkey", "=", "\n",
       "Address", " ", "=", " ", "10.65.123.45/32", "\n",
       "PostUp", " ", "=", " ", "iptables -A FORWARD -i ", "%", "i -j ACCEPT", "\n",
       "\n",
       "[", "Peer", "]", "\n",
       "#", " ", "Country", " ", "=", " ", "Netherlands", "\n",
       "#", " ", "City", " ", "=", " ", "Amsterdam", "\n",
       "#", " ", "Hostname", " ", "=", " ", "old-hostname", "\n",
       "PublicKey", " ", "=", " ", "oldkey", "=", "\n",
       "AllowedIPs", " ", "=", " ", "0.0.0.0/0,", "\n",
       "\t", ":", ":", "0/0", "\n",
       "PersistentKeepalive", ":", "25", "\n" >>

\* A configuration for a city that has no relays.
BerlinConfig ==
    << "[", "Interface", "]", "\n",
       "PrivateKey", " ", "=", " ", "privkey", "=", "\n",
       "[", "Peer", "]", "\n",
       "#", " ", "Country", " ", "=", " ", "Germany", "\n",
       "#", " ", "City", " ", "=", " ", "Berlin", "\n",
       "#", " ", "Hostname", " ", "=", " ", "de-ber-wg-001", "\n",
       "PublicKey", " ", "=", " ", "oldkey", "=", "\n",
       "Endpoint", " ", "=", " ", "1.2.3.4", ":", "51820", "\n" >>

NoPeerConfig ==
    << "[", "Interface", "]", "\n",
       "PrivateKey", " ", "=", " ", "privkey", "=", "\n" >>

NotAConfig == << "hello", "\n" >>

\* A configuration cut short in the hostname, with no newline at its end.
CutShortConfig ==
    << "[", "Interface", "]", "\n",
       "PrivateKey", " ", "=", " ", "privkey", "=", "\n",
       "\n",
       "[", "Peer", "]", "\n",
       "#", " ", "Country", " ", "=", " ", "Netherlands", "\n",
       "#", " ", "City", " ", "=", " ", "Amsterdam", "\n",
       "#", " ", "Hostname", " ", "=", " ", "nl-ams" >>

InitialFiles ==
    {Absent, Holds(HandWritten), Holds(BerlinConfig), Holds(NoPeerConfig),
     Holds(NotAConfig), Holds(CutShortConfig)}

MaxStreak == 2
MaxFaults == 1
MaxCountries == 2
MaxCities == 2

(***************************************************************************)
(* State.                                                                  *)
(***************************************************************************)
VARIABLES
    file,      \* the configuration file at the path: [exists, text]
    pc,        \* position of the running invocation: idle, fetch, select, write
    inv,       \* the running (or last) invocation
    orig,      \* the file before the first of the successive recreates
    streak,    \* number of successive successful recreates, up to MaxStreak
    faults,    \* number of interrupted writes so far
    damaged,   \* the file descends from an interrupted write
    directory, \* a directory response under construction (SpecLookup)
    query      \* the lookup made in it (SpecLookup)

vars == <<file, pc, inv, orig, streak, faults, damaged, directory, query>>

NoInvocation ==
    [cmd |-> "none", device |-> <<>>, private_key |-> <<>>, address |-> <<>>,
     country |-> <<>>, city |-> <<>>, before |-> Absent, damaged |-> FALSE,
     cfg |-> EmptyConfig, fetched |-> FALSE, raised |-> FALSE, status |-> 0,
     looked |-> FALSE,
     relays |-> None, picked |-> FALSE, gateway |-> NoRelay, content |-> <<>>,
     exit |-> -1, err |-> ""]

NoQuery == [asked |-> FALSE, country |-> <<>>, city |-> <<>>, result |-> None]

Init ==
    /\ file \in InitialFiles
    /\ pc = "idle"
    /\ inv = NoInvocation
    /\ orig = Absent
    /\ streak = 0
    /\ faults = 0
    /\ damaged = FALSE
    /\ directory = <<>>
    /\ query = NoQuery

Exited(i, code, err) == [i EXCEPT !.exit = code, !.err = err]

\* The invocation ends without a successful write.
Fails(i, code, err) ==
    /\ inv' = Exited(i, code, err)
    /\ pc' = "idle"
    /\ streak' = 0
    /\ orig' = Absent

\* create is invoked: lines 86-91.
CreateStart(private_key, address, device, country, city) ==
    /\ pc = "idle"
    /\ inv' = [NoInvocation EXCEPT !.cmd = "create", !.device = device,
                                   !.private_key = private_key, !.address = address,
                                   !.country = country, !.city = city,
                                   !.before = file, !.damaged = damaged]
    /\ pc' = "fetch"
    /\ streak' = 0
    /\ orig' = Absent
    /\ UNCHANGED <<file, faults, damaged, directory, query>>

\* recreate is invoked: lines 137-147.
RecreateStart ==
    /\ pc = "idle"
    /\ LET l == RecreateLoad(file)
           i == [NoInvocation EXCEPT !.cmd = "recreate", !.before = file,
                                     !.damaged = damaged, !.cfg = l.cfg,
                                     !.country = l.country, !.city = l.city]
       IN  IF l.err # ""
           THEN Fails(i, UncaughtExit, l.err)
           ELSE /\ inv' = i
                /\ pc' = "fetch"
                /\ streak' = streak
                /\ orig' = IF streak = 0 THEN file ELSE orig
    /\ UNCHANGED <<file, faults, damaged, directory, query>>

\* ask_mullvad, and in create the test of its result: lines 93-100, 149.
Fetch(script) ==
    /\ pc = "fetch"
    /\ LET r == AskMullvad(script, inv.country, inv.city)
           i == [inv EXCEPT !.fetched = TRUE, !.raised = (r.err = "RequestException"),
                            !.status = r.status, !.looked = (r.err = ""),
                            !.relays = r.relays]
           c == CreateCheckRelays(r.relays)
       IN  IF r.err # ""
           THEN Fails(i, r.code, r.err)
           ELSE IF inv.cmd = "create" /\ c.err # ""
           THEN Fails(i, c.code, c.err)
           ELSE inv' = i /\ pc' = "select" /\ UNCHANGED <<streak, orig>>
    /\ UNCHANGED <<file, faults, damaged, directory, query>>

\* get_random_gateway and the configuration to write: lines 101-123, 150-157.
Select ==
    /\ pc = "select"
    /\ \E g \in GetRandomGateway(inv.relays) :
         LET c == IF inv.cmd = "create"
                  THEN CreateConfig(inv.device, inv.private_key, inv.address,
                                    inv.country, inv.city, g.gateway)
                  ELSE RecreateUpdate(inv.cfg, g.gateway)
             i == [inv EXCEPT !.picked = TRUE, !.gateway = g.gateway]
         IN  IF g.err # ""
             THEN Fails(i, UncaughtExit, g.err)
             ELSE IF c.err # ""
             THEN Fails(i, UncaughtExit, c.err)
             ELSE /\ inv' = [i EXCEPT !.cfg = c.cfg, !.content = ConfigWrite(c.cfg)]
                  /\ pc' = "write"
                  /\ UNCHANGED <<streak, orig>>
    /\ UNCHANGED <<file, faults, damaged, directory, query>>

\* open(file, "w") and config.write: lines 125-126, 159-160.
WriteFile ==
    /\ pc = "write"
    /\ file' = Holds(inv.content)
    /\ inv' = Exited(inv, 0, "")
    /\ pc' = "idle"
    /\ streak' = IF inv.cmd = "recreate"
                 THEN (IF streak < MaxStreak THEN streak + 1 ELSE streak)
                 ELSE 0
    /\ orig' = IF inv.cmd = "recreate" THEN orig ELSE Absent
    /\ damaged' = (inv.cmd = "recreate" /\ damaged)
    /\ UNCHANGED <<faults, directory, query>>

\* The write stops after the file was opened (and so emptied) and before all
\* of the content is in it: the process is killed, or the write fails.  The
\* stopped process leaves nothing but the file and its exit status.
WriteInterrupted(k) ==
    /\ pc = "write"
    /\ faults < MaxFaults
    /\ k \in 0..(Len(inv.content) - 1)
    /\ file' = Holds(SubSeq(inv.content, 1, k))
    /\ inv' = [NoInvocation EXCEPT !.cmd = inv.cmd, !.exit = UncaughtExit,
                                   !.err = "OSError"]
    /\ pc' = "idle"
    /\ streak' = 0
    /\ orig' = Absent
    /\ faults' = faults + 1
    /\ damaged' = TRUE
    /\ UNCHANGED <<directory, query>>

Next ==
    \/ \E k \in PrivateKeys, a \in Addresses, d \in Devices, l \in Locations :
         CreateStart(k, a, d, l[1], l[2])
    \/ RecreateStart
    \/ \E s \in Scripts : Fetch(s)
    \/ Select
    \/ WriteFile

Spec == Init /\ [][Next]_vars

(***************************************************************************)
(* Interrupted writes.  Before the interruption the invocations are those   *)
(* of Spec; after it the recreate invocations on the file that was left.    *)
(***************************************************************************)
\* A create is followed only while no write has been interrupted: what is
\* looked at after an interrupted write is recreate on the file it left.
CreateBeforeFault(private_key, address, device, country, city) ==
    faults = 0 /\ CreateStart(private_key, address, device, country, city)

NextCrash ==
    \/ \E k \in PrivateKeys, a \in Addresses, d \in Devices, l \in Locations :
         CreateBeforeFault(k, a, d, l[1], l[2])
    \/ RecreateStart
    \/ \E s \in Scripts : Fetch(s)
    \/ Select
    \/ WriteFile
    \/ \E k \in 0..Len(inv.content) : WriteInterrupted(k)

SpecCrash == Init /\ [][NextCrash]_vars

(***************************************************************************)
(* The lookup of ask_mullvad in every directory response of up to          *)
(* MaxCountries countries and MaxCities cities.  Every city that has       *)
(* relays has a relay of its own, named after its place in the response.   *)
(***************************************************************************)
Names == {Netherlands, Germany}
CityNames == {Amsterdam, Berlin}

PlaceRelay(i, j) ==
    [hostname |-> <<"relay", ToString(i), ToString(j)>>,
     public_key |-> <<"key", ToString(i), ToString(j), "=">>,
     ipv4_addr_in |-> <<"10.0.", ToString(i), ".", ToString(j)>>]

RECURSIVE CountCities(_)
CountCities(countries) ==
    IF countries = <<>> THEN 0
    ELSE Len(Head(countries).cities) + CountCities(Tail(countries))

InitLookup ==
    /\ file = Absent
    /\ pc = "idle"
    /\ inv = NoInvocation
    /\ orig = Absent
    /\ streak = 0
    /\ faults = 0
    /\ damaged = FALSE
    /\ directory = <<>>
    /\ query = NoQuery

AddCountry(n) ==
    /\ ~query.asked
    /\ Len(directory) < MaxCountries
    /\ directory' = Append(directory, Country(n, <<>>))
    /\ UNCHANGED <<file, pc, inv, orig, streak, faults, damaged, query>>

AddCity(n, hasRelays) ==
    /\ ~query.asked
    /\ directory # <<>>
    /\ CountCities(directory) < MaxCities
    /\ LET i == Len(directory)
           j == Len(directory[i].cities) + 1
           rs == IF hasRelays THEN <<PlaceRelay(i, j)>> ELSE <<>>
       IN  directory' = [directory EXCEPT ![i].cities = Append(@, City(n, rs))]
    /\ UNCHANGED <<file, pc, inv, orig, streak, faults, damaged, query>>

Ask(requested_country, requested_city) ==
    /\ ~query.asked
    /\ LET r == AskMullvad(<<Response(200, DirectoryBody(directory))>>,
                           requested_country, requested_city)
       IN  query' = [asked |-> TRUE, country |-> requested_country,
                     city |-> requested_city, result |-> r.relays]
    /\ UNCHANGED <<file, pc, inv, orig, streak, faults, damaged, directory>>

NextLookup ==
    \/ \E n \in Names : AddCountry(n)
    \/ \E n \in CityNames, b \in BOOLEAN : AddCity(n, b)
    \/ \E c \in Names, t \in CityNames : Ask(c, t)

SpecLookup == InitLookup /\ [][NextLookup]_vars

(***************************************************************************)
(* Properties.                                                             *)
(***************************************************************************)
Finished == pc = "idle" /\ inv.cmd # "none"

Options(cfg, section) ==
    LET s == SectionIndex(cfg, section)
    IN  IF s = 0 THEN {} ELSE {cfg[s].opts[j] : j \in 1..Len(cfg[s].opts)}

GatewayKeys == {Note("Hostname"), <<"PublicKey">>, <<"Endpoint">>}

OtherOptions(cfg, section) == {o \in Options(cfg, section) : o.key \notin GatewayKeys}

Value(v) == [err |-> "", val |-> v]

\* C1: after n >= 1 successive successful recreates the file holds every
\* Interface option and every Peer option other than "# Hostname",
\* "PublicKey" and "Endpoint" with the value it had before the first of them,
\* none added and none dropped, and these three hold the hostname, the public
\* key and "<ipv4_addr_in>:51820" of the relay the latest recreate selected.
C1_RecreatePreservesFields ==
    (pc = "idle" /\ streak >= 1) =>
        LET a == ConfigRead(orig)
            b == ConfigRead(file)
        IN  /\ inv.cmd = "recreate" /\ inv.exit = 0
            /\ a.err = "" /\ b.err = ""
            /\ Options(b.cfg, Interface) = Options(a.cfg, Interface)
            /\ OtherOptions(b.cfg, Peer) = OtherOptions(a.cfg, Peer)
            /\ RawGet(b.cfg, Peer, Note("Hostname")) = Value(inv.gateway.hostname)
            /\ RawGet(b.cfg, Peer, <<"PublicKey">>) = Value(inv.gateway.public_key)
            /\ RawGet(b.cfg, Peer, <<"Endpoint">>)
                 = Value(inv.gateway.ipv4_addr_in \o <<":", "51820">>)

\* Two recreates in a row on the hand-written file, the second selecting
\* another relay than the file named.
C1_Witness ==
    /\ pc = "idle" /\ streak >= 2 /\ orig = Holds(HandWritten)
    /\ inv.gateway = R2 /\ file # orig

\* C2: after a successful create, reading the file back gives the caller's
\* device, private key and address, the requested country and city, and the
\* selected relay's hostname, public key and endpoint, and the file holds
\* nothing but the two sections create wrote.
C2_CreateRoundTrip ==
    (Finished /\ inv.cmd = "create" /\ inv.exit = 0) =>
        LET r == ConfigRead(file)
            Got(section, key) == ConfigGet(r.cfg, section, key)
        IN  /\ r.err = ""
            /\ Got(Interface, Note("Device")) = Value(inv.device)
            /\ Got(Interface, <<"PrivateKey">>) = Value(inv.private_key)
            /\ Got(Interface, <<"Address">>) = Value(inv.address)
            /\ Got(Peer, Note("Country")) = Value(inv.country)
            /\ Got(Peer, Note("City")) = Value(inv.city)
            /\ Got(Peer, Note("Hostname")) = Value(inv.gateway.hostname)
            /\ Got(Peer, <<"PublicKey">>) = Value(inv.gateway.public_key)
            /\ Got(Peer, <<"Endpoint">>)
                 = Value(inv.gateway.ipv4_addr_in \o <<":", "51820">>)
            /\ Len(r.cfg) = 2
            /\ Cardinality(Options(r.cfg, Interface)) = 6
            /\ Cardinality(Options(r.cfg, Peer)) = 6

NoRelays(i) == i.looked /\ (i.relays.isNone \/ i.relays.items = <<>>)

\* C3: a create whose lookup finds no relays ends with exit status 1 and the
\* file is as it was: absent if it was absent, else with the same content.
C3_CreateNotFound ==
    (Finished /\ inv.cmd = "create" /\ NoRelays(inv)) =>
        (inv.exit = 1 /\ file = inv.before)

\* A create for a pair the directory does not list, over an existing file.
C3_Witness ==
    /\ Finished /\ inv.cmd = "create" /\ inv.looked /\ inv.relays.isNone
    /\ inv.exit = 1 /\ inv.before = Holds(HandWritten) /\ file = inv.before

NetworkFailure(i) == i.fetched /\ (i.raised \/ i.status \notin 200..299)

\* C4: a create or recreate whose directory fetch fails at the network level
\* (a connection error, or a response that is not 2xx after the retries) ends
\* with exit status 2 and the file is as it was.
C4_NetworkFailureExit2 ==
    (Finished /\ inv.cmd \in {"create", "recreate"} /\ NetworkFailure(inv)) =>
        (inv.exit = 2 /\ file = inv.before)

\* The file has no line that is the header of the Peer section.
HasPeerHeader(text) ==
    \E n \in 1..Len(SplitLines(text)) :
        LET v == Strip(SplitLines(text)[n])
        IN  /\ Len(v) >= 3
            /\ v[1] = "["
            /\ SubSeq(v, 2, LastIn(v, {"]"}) - 1) = Peer

LacksPeer(f) == ~f.exists \/ ~HasPeerHeader(f.text)

ReadErrors ==
    {"ParsingError", "MissingSectionHeaderError", "DuplicateSectionError",
     "DuplicateOptionError"}

\* C5 as amended: a recreate on a path where the file is absent or has no Peer
\* section ends with a non-zero exit status and the file is as it was; the
\* cause is "No section: 'Peer'" when the file is absent or can be read, and
\* the reader's own error when the file cannot be read.
C5_RecreateWithoutPeer ==
    (Finished /\ inv.cmd = "recreate" /\ LacksPeer(inv.before)) =>
        /\ inv.exit # 0
        /\ file = inv.before
        /\ inv.err \in ReadErrors \cup {"NoSectionError"}
        /\ (inv.err = "NoSectionError") <=> (ConfigRead(inv.before).err = "")

\* A recreate on a path with no file: no file is created.
C5_Witness ==
    /\ Finished /\ inv.cmd = "recreate" /\ inv.before = Absent
    /\ inv.err = "NoSectionError" /\ inv.exit # 0 /\ file = Absent

\* C5 as stated: a recreate on a path where the file is absent or has no Peer
\* section fails with cause "No section: 'Peer'", a non-zero exit status, and
\* the file is as it was.
C5_Original ==
    (Finished /\ inv.cmd = "recreate" /\ LacksPeer(inv.before)) =>
        (inv.exit # 0 /\ inv.err = "NoSectionError" /\ file = inv.before)

Places ==
    UNION {{<<i, j>> : j \in 1..Len(directory[i].cities)} : i \in 1..Len(directory)}

Before(p, q) == p[1] < q[1] \/ (p[1] = q[1] /\ p[2] <= q[2])

Matches ==
    {p \in Places : /\ directory[p[1]].name = query.country
                    /\ directory[p[1]].cities[p[2]].name = query.city}

RelaysAt(p) == directory[p[1]].cities[p[2]].relays

\* The result is a list of relays that is nested at no other place than p.
OnlyFrom(p) ==
    \A q \in Places \ {p} : RelaysAt(q) # <<>> => query.result.items # RelaysAt(q)

\* C6 as amended: ask_mullvad returns the relay list of the first place of
\* the response, in the order country by country and city by city, where the
\* country's name equals the requested country and the city's name the
\* requested city: that list as it is, and the list of no other place.
C6_FirstMatchingPair ==
    (query.asked /\ Matches # {}) =>
        LET p == CHOOSE m \in Matches : \A q \in Matches : Before(m, q)
        IN  query.result = RelayList(RelaysAt(p)) /\ OnlyFrom(p)

\* The first country of the requested name lacks the city, a later country
\* of the same name has it, and its relays are returned.
C6_Witness ==
    /\ query.asked /\ Len(directory) = 2
    /\ directory[1].name = query.country
    /\ Matches = {<<2, 1>>}
    /\ query.result = RelayList(<<PlaceRelay(2, 1)>>)

\* C6 as stated: ask_mullvad returns the relay list of the first country
\* whose name equals the requested country and, within that country, of the
\* first city whose name equals the requested city, and never the list of
\* another country or city.
C6_Original ==
    (query.asked /\ \E i \in 1..Len(directory) : directory[i].name = query.country) =>
        LET i == CHOOSE c \in 1..Len(directory) :
                    /\ directory[c].name = query.country
                    /\ \A d \in 1..c - 1 : directory[d].name # query.country
            J == {j \in 1..Len(directory[i].cities) :
                    directory[i].cities[j].name = query.city}
            j == CHOOSE c \in J : \A d \in J : c <= d
        IN  IF J = {} THEN query.result.items = <<>>
            ELSE query.result = RelayList(RelaysAt(<<i, j>>)) /\ OnlyFrom(<<i, j>>)

\* C7: ask_mullvad returns None when no country of the requested name holds
\* a city of the requested name, and only then: a matching pair with no
\* relays gives the empty list, which is not None.
C7_NoneIffNoMatch ==
    query.asked => (query.result.isNone <=> Matches = {})

\* A matching pair with no relays: the result is the empty list.
C7_Witness ==
    /\ query.asked /\ Matches # {}
    /\ \A p \in Matches : RelaysAt(p) = <<>>
    /\ query.result = RelayList(<<>>)

Elements(items) == {items[n] : n \in 1..Len(items)}

\* C8: get_random_gateway on a list that is not empty returns one of its
\* elements, and each of them is a possible result; on the empty list it
\* fails with ValueError.
C8_RandomGateway ==
    (inv.picked /\ ~inv.relays.isNone) =>
        IF inv.relays.items # <<>>
        THEN /\ inv.gateway \in Elements(inv.relays.items)
             /\ GetRandomGateway(inv.relays)
                  = {[err |-> "", gateway |-> g] : g \in Elements(inv.relays.items)}
        ELSE /\ GetRandomGateway(inv.relays) = {[err |-> "ValueError", gateway |-> NoRelay]}
             /\ Finished /\ inv.err = "ValueError" /\ inv.exit # 0

\* The second of two relays was selected.
C8_Witness ==
    /\ inv.picked /\ Len(inv.relays.items) = 2 /\ inv.gateway = inv.relays.items[2]

ConfigLoadErrors ==
    ReadErrors \cup {"NoSectionError", "NoOptionError", "InterpolationSyntaxError"}

\* C9: a recreate on a file that an interrupted write left empty or cut
\* short fails with a config-load error.
C9_CutFileRejected ==
    (Finished /\ inv.cmd = "recreate" /\ inv.damaged) =>
        (inv.exit # 0 /\ inv.err \in ConfigLoadErrors)

\* C10: a recreate on a configuration whose country and city give no relay
\* to select (the pair is not in the response, or has no relays) ends with a
\* non-zero exit status and the file is as it was.
C10_RecreateNoRelay ==
    (Finished /\ inv.cmd = "recreate" /\ NoRelays(inv)) =>
        (inv.exit # 0 /\ file = inv.before)

\* The stored pair is not in the response.
C10_Witness ==
    /\ Finished /\ inv.cmd = "recreate" /\ inv.looked /\ inv.relays.isNone
    /\ inv.exit # 0 /\ inv.before = Holds(BerlinConfig) /\ file = inv.before
=============================================================================
